---------------------------- MODULE Spec2Model ----------------------------
(***************************************************************************)
(* Model of the workflow-generation backend (src/index.js and its two      *)
(* sibling versions under src/unnamed): the POST /api/generate-workflow    *)
(* handler with its provider chain, the keyword-based fallback workflow    *)
(* and the defaulting pass applied before the response is sent.            *)
(*                                                                         *)
(* JavaScript values are tagged records [kind, v].  A JavaScript string is *)
(* a sequence of chunks: text that comes from the request is one chunk per *)
(* character, a literal of the source is a single chunk.                   *)
(***************************************************************************)
EXTENDS Integers, Sequences, FiniteSets, TLC

(***************************************************************************)
(* JavaScript values                                                       *)
(***************************************************************************)
Undefined == [kind |-> "undefined", v |-> <<>>]
Null == [kind |-> "null", v |-> <<>>]
Bool(b) == [kind |-> "bool", v |-> b]
Num(n) == [kind |-> "num", v |-> n]
Str(s) == [kind |-> "str", v |-> s]
Arr(a) == [kind |-> "arr", v |-> a]
Obj(o) == [kind |-> "obj", v |-> o]
\* A string that holds a provider's reply, kept as its sequence of lexemes.
Text(ts) == [kind |-> "text", v |-> ts]
EmptyObj == Obj(<<>>)

\* ToBoolean of a value, as used by !x, x || y and if (x).
Truthy(x) ==
  CASE x.kind = "undefined" -> FALSE
    [] x.kind = "null" -> FALSE
    [] x.kind = "bool" -> x.v
    [] x.kind = "num" -> x.v # 0
    [] x.kind = "str" -> x.v # <<>>
    [] x.kind = "text" -> x.v # <<>>
    [] OTHER -> TRUE

\* x || y
OrElse(x, y) == IF Truthy(x) THEN x ELSE y

HasKey(x, k) == x.kind = "obj" /\ k \in DOMAIN x.v

\* x.k for a value x that is neither undefined nor null.
Get(x, k) == IF HasKey(x, k) THEN x.v[k] ELSE Undefined

\* a[i] for an array a (0-based), undefined out of range or on a non-array.
Index(a, i) == IF a.kind = "arr" /\ i + 1 <= Len(a.v) THEN a.v[i + 1] ELSE Undefined

\* Reading a property of undefined or null throws a TypeError.
Nullish(x) == x.kind \in {"undefined", "null"}

\* x.k = val in a sloppy-mode script (none of the sources is a strict-mode
\* script or an ES module): on an object the property is written, on a
\* primitive the write is silently dropped; on an array the property is an
\* expando that JSON serialisation never emits.
SetProp(x, k, val) == IF x.kind = "obj" THEN Obj((k :> val) @@ x.v) ELSE x

(***************************************************************************)
(* Strings                                                                 *)
(***************************************************************************)
UpperCase == <<"A", "B", "C", "D", "E", "F", "G", "H", "I", "J", "K", "L", "M",
               "N", "O", "P", "Q", "R", "S", "T", "U", "V", "W", "X", "Y", "Z">>
LowerCase == <<"a", "b", "c", "d", "e", "f", "g", "h", "i", "j", "k", "l", "m",
               "n", "o", "p", "q", "r", "s", "t", "u", "v", "w", "x", "y", "z">>

ToLowerChar(c) ==
  IF \E i \in 1..Len(UpperCase) : UpperCase[i] = c
    THEN LowerCase[CHOOSE i \in 1..Len(UpperCase) : UpperCase[i] = c]
    ELSE c

\* String.prototype.toLowerCase
toLowerCase(s) == [i \in 1..Len(s) |-> ToLowerChar(s[i])]

\* String.prototype.includes
includes(s, pat) ==
  \E i \in 0..(Len(s) - Len(pat)) : SubSeq(s, i + 1, i + Len(pat)) = pat

Min(a, b) == IF a <= b THEN a ELSE b

\* String.prototype.substring(from, to) for 0 <= from <= to
substring(s, from, to) == SubSeq(s, Min(from, Len(s)) + 1, Min(to, Len(s)))

RECURSIVE Digits(_)
\* Decimal rendering of a non-negative integer inside a template literal.
Digits(n) ==
  LET d == <<"0", "1", "2", "3", "4", "5", "6", "7", "8", "9">>
  IN IF n < 10 THEN <<d[n + 1]>> ELSE Digits(n \div 10) \o <<d[(n % 10) + 1]>>


(***************************************************************************)
(* JSON text.  A text is a sequence of lexemes [kind, v]: the punctuation of  *)
(* JSON, string and number literals, the literals null, true and false,    *)
(* and "prose" for any run of characters that is not JSON (the words a     *)
(* model writes around its answer).  String literals of the sample texts   *)
(* hold no brace.                                                          *)
(***************************************************************************)
Tok(x) == [kind |-> x, v |-> <<>>]
TStr(s) == [kind |-> "str", v |-> s]
TNum(n) == [kind |-> "num", v |-> n]

\* Property names are literals of one chunk.
KeyOf(tok) == IF Len(tok.v) = 1 THEN tok.v[1] ELSE ""

ParseFail == [ok |-> FALSE, val |-> Undefined, rest |-> <<>>]
ParseOk(val, rest) == [ok |-> TRUE, val |-> val, rest |-> rest]

RECURSIVE ParseValue(_), ParseMembers(_, _), ParseElements(_, _)
\* One JSON value at the head of ts.
ParseValue(ts) ==
  IF ts = <<>> THEN ParseFail
  ELSE LET h == Head(ts)
           r == Tail(ts)
       IN CASE h.kind = "{" ->
                 IF r # <<>> /\ Head(r).kind = "}" THEN ParseOk(EmptyObj, Tail(r))
                 ELSE ParseMembers(r, <<>>)
            [] h.kind = "[" ->
                 IF r # <<>> /\ Head(r).kind = "]" THEN ParseOk(Arr(<<>>), Tail(r))
                 ELSE ParseElements(r, <<>>)
            [] h.kind = "str" -> ParseOk(Str(h.v), r)
            [] h.kind = "num" -> ParseOk(Num(h.v), r)
            [] h.kind = "null" -> ParseOk(Null, r)
            [] h.kind = "true" -> ParseOk(Bool(TRUE), r)
            [] h.kind = "false" -> ParseOk(Bool(FALSE), r)
            [] OTHER -> ParseFail

\* key : value, followed by "," and more members, or by "}".
ParseMembers(ts, acc) ==
  IF Len(ts) < 3 \/ ts[1].kind # "str" \/ ts[2].kind # ":" THEN ParseFail
  ELSE LET m == ParseValue(SubSeq(ts, 3, Len(ts)))
       IN IF ~m.ok \/ m.rest = <<>> THEN ParseFail
          ELSE LET acc2 == (KeyOf(ts[1]) :> m.val) @@ acc
                   sep == Head(m.rest)
               IN CASE sep.kind = "}" -> ParseOk(Obj(acc2), Tail(m.rest))
                    [] sep.kind = "," -> ParseMembers(Tail(m.rest), acc2)
                    [] OTHER -> ParseFail

\* value, followed by "," and more elements, or by "]".
ParseElements(ts, acc) ==
  LET e == ParseValue(ts)
  IN IF ~e.ok \/ e.rest = <<>> THEN ParseFail
     ELSE LET acc2 == Append(acc, e.val)
              sep == Head(e.rest)
          IN CASE sep.kind = "]" -> ParseOk(Arr(acc2), Tail(e.rest))
               [] sep.kind = "," -> ParseElements(Tail(e.rest), acc2)
               [] OTHER -> ParseFail

\* JSON.parse(text): ok = FALSE stands for the SyntaxError it throws.
JSONParse(ts) ==
  LET r == ParseValue(ts)
  IN IF r.ok /\ r.rest = <<>> THEN [ok |-> TRUE, val |-> r.val]
     ELSE [ok |-> FALSE, val |-> Undefined]

\* The order in which the sample documents list their properties.
KeyOrder == <<"name", "id", "type", "position", "parameters", "nodes",
              "connections", "settings", "executionOrder", "a", "main", "node",
              "index">>

RECURSIVE Stringify(_), StringifyMembers(_, _), StringifyElements(_, _)
\* JSON.stringify(x) for a value x that JSON.parse can return.
Stringify(x) ==
  CASE x.kind = "obj" ->
         <<Tok("{")>> \o StringifyMembers(x.v, 1) \o <<Tok("}")>>
    [] x.kind = "arr" ->
         <<Tok("[")>> \o StringifyElements(x.v, 1) \o <<Tok("]")>>
    [] x.kind = "str" -> <<TStr(x.v)>>
    [] x.kind = "num" -> <<TNum(x.v)>>
    [] x.kind = "bool" -> <<Tok(IF x.v THEN "true" ELSE "false")>>
    [] OTHER -> <<Tok("null")>>

StringifyMembers(o, i) ==
  IF i > Len(KeyOrder) THEN <<>>
  ELSE IF KeyOrder[i] \notin DOMAIN o THEN StringifyMembers(o, i + 1)
  ELSE LET rest == StringifyMembers(o, i + 1)
       IN <<TStr(<<KeyOrder[i]>>), Tok(":")>> \o Stringify(o[KeyOrder[i]])
            \o (IF rest = <<>> THEN <<>> ELSE <<Tok(",")>> \o rest)

StringifyElements(a, i) ==
  IF i > Len(a) THEN <<>>
  ELSE Stringify(a[i])
         \o (IF i = Len(a) THEN <<>> ELSE <<Tok(",")>> \o StringifyElements(a, i + 1))

\* text.match(/\{[\s\S]*\}/): the span from the first "{" that has a "}"
\* after it to the last "}" of the text; found = FALSE stands for null.
MatchBraces(ts) ==
  LET opens == {i \in 1..Len(ts) : ts[i].kind = "{"}
      closes == {i \in 1..Len(ts) : ts[i].kind = "}"}
      first == CHOOSE i \in opens : \A j \in opens : i <= j
      last == CHOOSE i \in closes : \A j \in closes : j <= i
  IN IF opens # {} /\ closes # {} /\ first < last
       THEN [found |-> TRUE, text |-> SubSeq(ts, first, last)]
       ELSE [found |-> FALSE, text |-> <<>>]

(***************************************************************************)
(* The keyword-based fallback workflow of src/index.js                     *)
(***************************************************************************)
Lit(s) == Str(<<s>>)

\* Mutant of isEmailWorkflow: the keyword test without the lower-casing.
isEmailWorkflowCaseSensitive(workflowDescription) ==
  includes(workflowDescription, <<"e", "m", "a", "i", "l">>)

isEmailWorkflow(workflowDescription) ==
  includes(toLowerCase(workflowDescription), <<"e", "m", "a", "i", "l">>)

isScheduled(workflowDescription) ==
  \/ includes(toLowerCase(workflowDescription), <<"d", "a", "i", "l", "y">>)
  \/ includes(toLowerCase(workflowDescription),
              <<"s", "c", "h", "e", "d", "u", "l", "e">>)

needsGoogleSheets(workflowDescription) ==
  \/ includes(toLowerCase(workflowDescription), <<"s", "h", "e", "e", "t">>)
  \/ includes(toLowerCase(workflowDescription),
              <<"s", "p", "r", "e", "a", "d", "s", "h", "e", "e", "t">>)

\* One connection entry: { main: [[{ node: target, type: "main", index: 0 }]] }
MainTo(target) ==
  Obj([main |-> Arr(<<Arr(<<Obj([node |-> Lit(target), type |-> Lit("main"),
                                  index |-> Num(0)])>>)>>)])

TriggerNode(workflowDescription) ==
  LET email == isEmailWorkflow(workflowDescription)
      sched == isScheduled(workflowDescription)
  IN Obj([id |-> Lit("trigger"),
          name |-> Lit(IF email THEN "Email Trigger"
                       ELSE IF sched THEN "Schedule Trigger" ELSE "Webhook"),
          type |-> Lit(IF email THEN "n8n-nodes-base.emailReadImap"
                       ELSE IF sched THEN "n8n-nodes-base.scheduleTrigger"
                       ELSE "n8n-nodes-base.webhook"),
          position |-> Arr(<<Num(250), Num(300)>>),
          parameters |->
            IF email
              THEN Obj([mailbox |-> Lit("INBOX"),
                        postProcessAction |-> Lit("nothing"),
                        options |-> EmptyObj])
            ELSE IF sched
              THEN Obj([rule |-> Obj([interval |->
                     Arr(<<Obj([field |-> Lit("hours"),
                                hoursInterval |-> Num(24)])>>)])])
            ELSE Obj([path |-> Lit("workflow-trigger"), method |-> Lit("POST")])])

ProcessNode ==
  Obj([id |-> Lit("process"),
       name |-> Lit("Process Data"),
       type |-> Lit("n8n-nodes-base.code"),
       position |-> Arr(<<Num(500), Num(300)>>),
       parameters |-> Obj([jsCode |-> Lit("// Process the incoming data\nconst items = $input.all();\nreturn items.map(item => ({\n  json: {\n    ...item.json,\n    processed: true,\n    timestamp: new Date().toISOString()\n  }\n}));")])])

SheetsNode ==
  Obj([id |-> Lit("sheets"),
       name |-> Lit("Google Sheets"),
       type |-> Lit("n8n-nodes-base.googleSheets"),
       position |-> Arr(<<Num(750), Num(300)>>),
       parameters |-> Obj([operation |-> Lit("append"),
                           sheetId |-> Lit("your-sheet-id"),
                           range |-> Lit("A:Z")])])

NameLimit == 50

\* Mutant of FallbackWorkflow: the sheets node is pushed and the connection
\* from the process node to it is forgotten.
FallbackWorkflowUnwired(workflowDescription) ==
  LET base ==
        [name |-> Str(<<"ProcessArchitec - ">>
                        \o substring(workflowDescription, 0, NameLimit)),
         nodes |-> Arr(<<TriggerNode(workflowDescription), ProcessNode>>),
         connections |-> Obj([trigger |-> MainTo("process")]),
         settings |-> Obj([executionOrder |-> Lit("v1")])]
  IN IF needsGoogleSheets(workflowDescription)
       THEN Obj([base EXCEPT !.nodes = Arr(Append(@.v, SheetsNode))])
       ELSE Obj(base)

\* The object literal assigned to workflow, then the push of the sheets node
\* and of its connection when the text mentions a sheet.
FallbackWorkflow(workflowDescription) ==
  LET base ==
        [name |-> Str(<<"ProcessArchitec - ">>
                        \o substring(workflowDescription, 0, NameLimit)),
         nodes |-> Arr(<<TriggerNode(workflowDescription), ProcessNode>>),
         connections |-> Obj([trigger |-> MainTo("process")]),
         settings |-> Obj([executionOrder |-> Lit("v1")])]
  IN IF needsGoogleSheets(workflowDescription)
       THEN Obj([base EXCEPT
                   !.nodes = Arr(Append(@.v, SheetsNode)),
                   !.connections = Obj(("process" :> MainTo("sheets")) @@ @.v)])
       ELSE Obj(base)

(***************************************************************************)
(* The defaulting pass                                                     *)
(***************************************************************************)
DefaultSettings == Obj([executionOrder |-> Lit("v1")])

\* `ProcessArchitec Workflow - ${Date.now()}`
DefaultName(now) == Str(<<"ProcessArchitec Workflow - ">> \o Digits(now))

\* Mutant of EnsureValidStructure: the name is stamped with the time even
\* when the workflow has one.
EnsureValidStructureStamped(workflow, now) ==
  LET w1 == SetProp(workflow, "name", DefaultName(now))
  IN SetProp(w1, "settings", OrElse(Get(w1, "settings"), DefaultSettings))

\* src/index.js, "Ensure valid structure"
EnsureValidStructure(workflow, now) ==
  LET w1 == SetProp(workflow, "name", OrElse(Get(workflow, "name"), DefaultName(now)))
  IN SetProp(w1, "settings", OrElse(Get(w1, "settings"), DefaultSettings))

\* PositionOrDefault without the `node.position ||`: every node is placed
\* by its index.
PositionByIndex(node, index) ==
  Arr(<<Num(250 + (index * 250)), Num(300)>>)

\* node.position || [250 + (index * 250), 300], index counted from 0
PositionOrDefault(node, index) ==
  OrElse(Get(node, "position"), Arr(<<Num(250 + (index * 250)), Num(300)>>))

\* ({ ...node, position: node.position || [...] }): reading a property of
\* null or undefined throws (see EnsureRequiredFields); the spread of a
\* number or a boolean adds nothing.  Strings and arrays, whose spread adds
\* their indices, are not among the nodes of the candidates.
WithPosition(node, index) ==
  IF node.kind = "obj" THEN SetProp(node, "position", PositionOrDefault(node, index))
  ELSE Obj([position |-> PositionOrDefault(node, index)])

Threw == [threw |-> TRUE, workflow |-> Undefined]
Returned(wf) == [threw |-> FALSE, workflow |-> wf]

\* Mutant of EnsureRequiredFields: the name is set from the clock without
\* looking at the name the workflow has.
EnsureRequiredFieldsRestamped(workflow, now) ==
  LET w1 == SetProp(workflow, "name", DefaultName(now))
      w2 == SetProp(w1, "nodes", OrElse(Get(w1, "nodes"), Arr(<<>>)))
      w3 == SetProp(w2, "connections", OrElse(Get(w2, "connections"), EmptyObj))
      w4 == SetProp(w3, "settings", OrElse(Get(w3, "settings"), DefaultSettings))
      nodes == Get(w4, "nodes")
  IN IF workflow.kind = "arr" THEN Returned(workflow)
     ELSE IF nodes.kind # "arr" \/ \E i \in 1..Len(nodes.v) : Nullish(nodes.v[i])
       THEN Threw
     ELSE Returned(SetProp(w4, "nodes",
                           Arr([i \in 1..Len(nodes.v) |-> WithPosition(nodes.v[i], i - 1)])))

\* src/unnamed/part_000, "Ensure workflow has required fields" and "Add
\* position to nodes if missing".  threw stands for the TypeError of
\* workflow.nodes.map when nodes is no array, or of node.position when a
\* node is null.
EnsureRequiredFields(workflow, now) ==
  LET w1 == SetProp(workflow, "name", OrElse(Get(workflow, "name"), DefaultName(now)))
      w2 == SetProp(w1, "nodes", OrElse(Get(w1, "nodes"), Arr(<<>>)))
      w3 == SetProp(w2, "connections", OrElse(Get(w2, "connections"), EmptyObj))
      w4 == SetProp(w3, "settings", OrElse(Get(w3, "settings"), DefaultSettings))
      nodes == Get(w4, "nodes")
  IN IF workflow.kind = "arr" THEN Returned(workflow)
     ELSE IF nodes.kind # "arr" \/ \E i \in 1..Len(nodes.v) : Nullish(nodes.v[i])
       THEN Threw
     ELSE Returned(SetProp(w4, "nodes",
                           Arr([i \in 1..Len(nodes.v) |-> WithPosition(nodes.v[i], i - 1)])))

(***************************************************************************)
(* Inputs: request bodies, times, provider replies                         *)
(***************************************************************************)
MaxWords == 2
MaxTime == 2

\* The pieces requirement texts are made of, one chunk per character.
Fragments ==
  { <<"E", "m", "a", "i", "l">>,
    <<"d", "a", "i", "l", "y">>,
    <<"S", "C", "H", "E", "D", "U", "L", "E">>,
    <<"s", "p", "r", "e", "a", "d">>,
    <<"s", "h", "e", "e", "t">>,
    <<" ", "t", "o", " ">>,
    <<"s", "y", "n", "c", " ", "n", "e", "w", " ", "o", "r", "d", "e", "r", "s",
      " ", "t", "o", " ", "t", "h", "e", " ", "C", "R", "M">> }

RECURSIVE Phrases(_)
\* The concatenations of at most n fragments.
Phrases(n) ==
  IF n = 0 THEN {<<>>}
  ELSE LET shorter == Phrases(n - 1)
       IN shorter \cup {p \o f : p \in shorter, f \in Fragments}

Requirements == Phrases(MaxWords)

\* req.body after express.json(): workflowDescription is a string or is
\* missing, businessContext is an object or is missing.
Bodies ==
  [businessContext : {Undefined, EmptyObj},
   workflowDescription : {Undefined} \cup {Str(q) : q \in Requirements}]

\* The values Date.now() may return.
Times == 0..MaxTime

Node(id) == Obj([id |-> Lit(id), name |-> Lit("Step"), type |-> Lit("n8n-nodes-base.set"),
                 parameters |-> EmptyObj])
NodeAt(id, x, y) ==
  Obj([id |-> Lit(id), name |-> Lit("Step"), type |-> Lit("n8n-nodes-base.set"),
       position |-> Arr(<<Num(x), Num(y)>>), parameters |-> EmptyObj])

\* Objects a provider may answer with.
ProviderDocs ==
  { Obj([name |-> Lit("AI workflow"),
         nodes |-> Arr(<<NodeAt("a", 100, 100), Node("b")>>),
         connections |-> Obj([a |-> MainTo("b")]),
         settings |-> Obj([executionOrder |-> Lit("v1")])]),
    EmptyObj,
    Obj([name |-> Str(<<>>), nodes |-> Arr(<<>>), settings |-> EmptyObj]),
    Obj([nodes |-> Arr(<<Node("a"), Node("b"), Node("c")>>),
         connections |-> Obj([a |-> MainTo("zz")])]) }

Prose == Tok("prose")

\* Reply texts of the Claude messages API: a document alone, a document
\* inside prose, and texts that hold no document.
ClaudeTexts ==
  {Stringify(d) : d \in ProviderDocs}
    \cup {<<Prose>> \o Stringify(d) \o <<Prose>> : d \in ProviderDocs}
    \cup { <<Prose>>,
           <<>>,
           <<Tok("null")>>,
           <<Tok("}"), Prose, Tok("{")>>,
           <<Prose, Tok("{"), Prose, Tok("}")>>,
           Stringify(EmptyObj) \o <<Prose, Tok("}")>>,
           <<Tok("{"), TStr(<<"name">>), Tok(":"), TStr(<<"x">>), Tok(",")>>,
           <<Tok("{"), TStr(<<"settings">>), Tok(":"), Tok("{"), Tok("}"), Tok(",")>> }


\* What `await response.json()` settles with for a 2xx reply of the messages
\* API: a message whose first content block holds the text, a message with
\* no content block, an object without content.
ClaudeData ==
  {Obj([content |-> Arr(<<Obj([type |-> Lit("text"), text |-> Text(t)])>>)]) :
     t \in ClaudeTexts}
    \cup {Obj([content |-> Arr(<<>>)]), EmptyObj}

\* message.content texts of the chat-completions API.
OpenAITexts ==
  {Stringify(d) : d \in ProviderDocs}
    \cup { <<Tok("null")>>, <<TNum(0)>>, <<TNum(5)>>, <<TStr(<<>>)>>,
           <<TStr(<<"done">>)>>, <<Tok("true")>>, <<Tok("false")>>,
           <<Tok("["), Tok("]")>>,
           <<Prose>>,
           <<>>,
           <<Prose>> \o Stringify(EmptyObj) }

Completion(content) ==
  Obj([choices |-> Arr(<<Obj([index |-> Num(0),
                              message |-> Obj([role |-> Lit("assistant"),
                                               content |-> content])])>>)])

\* What `await openai.chat.completions.create(...)` resolves with.
OpenAICompletions ==
  {Completion(Text(t)) : t \in OpenAITexts}
    \cup {Completion(Null), Obj([choices |-> Arr(<<>>)])}

\* HTTP status codes of the messages API seen by fetch.
Statuses == {200, 401, 429, 500, 529}

\* response.ok
IsOk(status) == status >= 200 /\ status <= 299

\* JSON.parse(x): the argument is first converted to a string.
JSONParseValue(x) ==
  CASE x.kind = "text" -> JSONParse(x.v)
    [] x.kind = "null" -> JSONParse(<<Tok("null")>>)
    [] OTHER -> [ok |-> FALSE, val |-> Undefined]

(***************************************************************************)
(* The POST /api/generate-workflow handler of src/index.js                 *)
(*                                                                         *)
(* A handler runs without interruption from one await to the next, so an   *)
(* action is the code between two awaits: the arrival of the request up to *)
(* the first provider call, and the settling of each awaited promise up to *)
(* the next provider call or to the response.                              *)
(***************************************************************************)
VARIABLES
  env,        \* process.env: which provider credentials are set
  pc,         \* per request: the await the handler is suspended at
  body,       \* per request: req.body
  workflow,   \* per request: the handler's local `workflow`
  response,   \* per request: what res has sent, status 0 while nothing is sent
  log,        \* per request: the console lines the handler wrote
  candidate,  \* per request (history): who produced the workflow, and the
              \* workflow as it was when the defaulting pass began
  connection  \* per request: "open" until the client disconnects, then "closed"

vars == <<env, pc, body, workflow, response, log, candidate, connection>>

Requests == {1, 2}

\* sends counts the responses res has been asked to send.
NoResponse == [status |-> 0, body |-> Undefined, sends |-> 0]
NoCandidate == [by |-> "none", doc |-> Undefined]

\* The handler's locals and effects at the end of a run-to-completion step.
Started == [pc |-> "running", workflow |-> Undefined, response |-> NoResponse,
            log |-> <<"Received request">>, candidate |-> NoCandidate]

Logged(st, line) == [st EXCEPT !.log = Append(@, line)]

\* catch (error): res.status(500).json({ error, details, hasAI })
Catch(st, message) ==
  [Logged(st, "Generation error") EXCEPT
     !.pc = "done",
     !.response =
       [status |-> 500,
        body |-> Obj([error |-> Lit("Generation failed"),
                      details |-> Lit(message),
                      hasAI |-> Bool(env.ANTHROPIC_API_KEY \/ env.OPENAI_API_KEY)]),
        sends |-> st.response.sends + 1]]

\* res.json(workflow)
SendJson(st, wf) ==
  [st EXCEPT !.pc = "done", !.workflow = wf,
             !.response = [status |-> 200, body |-> wf,
                           sends |-> st.response.sends + 1]]

\* Defaulted followed, after res.json, by a statement that throws.
DefaultedThenThrows(st, by, wf, now) ==
  Catch(SendJson([st EXCEPT !.candidate = [by |-> by, doc |-> wf]],
                 EnsureValidStructure(wf, now)),
        "Cannot read properties of undefined (reading 'length')")

\* The defaulting pass of src/index.js on the workflow produced by `by`.
Defaulted(st, by, wf, now) ==
  SendJson([st EXCEPT !.candidate = [by |-> by, doc |-> wf]],
           EnsureValidStructure(wf, now))

\* From `if (!workflow)` to res.json(workflow): the keyword fallback when
\* there is no workflow yet, the defaulting pass, the response.
Finish(st, by, wf, workflowDescription, now) ==
  IF ~Truthy(wf)
    THEN LET st1 == Logged(st, "Using intelligent fallback...")
         IN IF workflowDescription.kind # "str"
              THEN Catch(st1, "Cannot read properties of undefined (reading 'toLowerCase')")
              ELSE Defaulted(st1, "fallback", FallbackWorkflow(workflowDescription.v), now)
    ELSE Defaulted(st, by, wf, now)

\* OpenAIBlock without the `!workflow &&` of its condition.
OpenAIBlockUnguarded(st, wf, workflowDescription, now) ==
  IF env.OPENAI_API_KEY
    THEN [Logged(st, "Using OpenAI...") EXCEPT !.pc = "awaitOpenAI", !.workflow = wf]
    ELSE Finish(st, "claude", wf, workflowDescription, now)

\* `if (!workflow && process.env.OPENAI_API_KEY)` up to the awaited call.
OpenAIBlock(st, wf, workflowDescription, now) ==
  IF ~Truthy(wf) /\ env.OPENAI_API_KEY
    THEN [Logged(st, "Using OpenAI...") EXCEPT !.pc = "awaitOpenAI", !.workflow = wf]
    ELSE Finish(st, "claude", wf, workflowDescription, now)

\* ClaudeBlock without the test of the credential.
ClaudeBlockAlways(st, workflowDescription, now) ==
  [Logged(st, "Using Claude...") EXCEPT !.pc = "awaitFetch"]

\* `if (process.env.ANTHROPIC_API_KEY)` up to the awaited fetch.
ClaudeBlock(st, workflowDescription, now) ==
  IF env.ANTHROPIC_API_KEY
    THEN [Logged(st, "Using Claude...") EXCEPT !.pc = "awaitFetch"]
    ELSE OpenAIBlock(st, Undefined, workflowDescription, now)

\* AfterFetch with one more try of the fetch after a reply that is not ok.
AfterFetchRetrying(st, settled, status) ==
  IF settled = "rejected" THEN Catch(st, "fetch failed")
  ELSE IF IsOk(status) THEN [st EXCEPT !.pc = "awaitJson"]
  ELSE IF Len(st.log) < 3
    THEN [Logged(Logged(st, "Claude API error"), "Using Claude...") EXCEPT !.pc = "awaitFetch"]
  ELSE Catch(Logged(st, "Claude API error"), "Claude API failed")

\* After `await fetch(...)`: a rejected fetch throws, a reply that is not ok
\* throws 'Claude API failed', an ok reply is read with response.json().
AfterFetch(st, settled, status) ==
  IF settled = "rejected" THEN Catch(st, "fetch failed")
  ELSE IF IsOk(status) THEN [st EXCEPT !.pc = "awaitJson"]
  ELSE Catch(Logged(st, "Claude API error"), "Claude API failed")

\* AfterJson with the parsed document bound to a `workflow` of the inner
\* block, so that the handler's own `workflow` stays undefined.
AfterJsonShadowed(st, settled, data, workflowDescription, now) ==
  IF settled = "rejected" THEN Catch(st, "Unexpected token in JSON")
  ELSE LET content == Get(data, "content")
           block == Index(content, 0)
           text == Get(block, "text")
       IN IF Nullish(content) \/ Nullish(block)
            THEN Catch(st, "Cannot read properties of undefined")
          ELSE IF text.kind # "text"
            THEN Catch(st, "text.match is not a function")
          ELSE LET jsonMatch == MatchBraces(text.v)
               IN IF jsonMatch.found
                    THEN LET parsed == JSONParse(jsonMatch.text)
                         IN IF parsed.ok
                              THEN OpenAIBlock(
                                     Logged(st, "Claude generated workflow successfully"),
                                     Undefined, workflowDescription, now)
                              ELSE Catch(st, "Unexpected token in JSON")
                    ELSE OpenAIBlock(st, Undefined, workflowDescription, now)

\* After `await response.json()`: data.content[0].text, the brace match and
\* JSON.parse of the match; with no match workflow stays undefined.
AfterJson(st, settled, data, workflowDescription, now) ==
  IF settled = "rejected" THEN Catch(st, "Unexpected token in JSON")
  ELSE LET content == Get(data, "content")
           block == Index(content, 0)
           text == Get(block, "text")
       IN IF Nullish(content) \/ Nullish(block)
            THEN Catch(st, "Cannot read properties of undefined")
          ELSE IF text.kind # "text"
            THEN Catch(st, "text.match is not a function")
          ELSE LET jsonMatch == MatchBraces(text.v)
               IN IF jsonMatch.found
                    THEN LET parsed == JSONParse(jsonMatch.text)
                         IN IF parsed.ok
                              THEN OpenAIBlock(
                                     Logged(st, "Claude generated workflow successfully"),
                                     parsed.val, workflowDescription, now)
                              ELSE Catch(st, "Unexpected token in JSON")
                    ELSE OpenAIBlock(st, Undefined, workflowDescription, now)

\* After `await openai.chat.completions.create(...)`:
\* workflow = JSON.parse(completion.choices[0].message.content).
AfterOpenAI(st, settled, completion, workflowDescription, now) ==
  IF settled = "rejected" THEN Catch(st, "Connection error.")
  ELSE LET choice == Index(Get(completion, "choices"), 0)
           content == Get(Get(choice, "message"), "content")
       IN IF Nullish(choice) \/ Nullish(Get(choice, "message"))
            THEN Catch(st, "Cannot read properties of undefined")
          ELSE LET parsed == JSONParseValue(content)
               IN IF parsed.ok
                    THEN Finish(Logged(st, "OpenAI generated workflow successfully"),
                                "openai", parsed.val, workflowDescription, now)
                    ELSE Catch(st, "Unexpected token in JSON")

Current(r) == [pc |-> pc[r], workflow |-> workflow[r], response |-> response[r],
               log |-> log[r], candidate |-> candidate[r]]

\* Become, with `workflow` declared outside the handler: one variable that
\* every request in flight shares.
BecomeShared(r, st) ==
  /\ pc' = [pc EXCEPT ![r] = st.pc]
  /\ workflow' = [q \in Requests |-> IF q = r \/ pc[q] \in {"awaitFetch", "awaitJson", "awaitOpenAI"}
                                       THEN st.workflow ELSE workflow[q]]
  /\ response' = [response EXCEPT ![r] = st.response]
  /\ log' = [log EXCEPT ![r] = st.log]
  /\ candidate' = [candidate EXCEPT ![r] = st.candidate]
  /\ connection' = connection

\* The handler's locals (let workflow, const response, data, completion) and
\* its res belong to the call that serves request r.
Become(r, st) ==
  /\ pc' = [pc EXCEPT ![r] = st.pc]
  /\ workflow' = [workflow EXCEPT ![r] = st.workflow]
  /\ response' = [response EXCEPT ![r] = st.response]
  /\ log' = [log EXCEPT ![r] = st.log]
  /\ candidate' = [candidate EXCEPT ![r] = st.candidate]
  /\ connection' = connection

Init ==
  /\ env \in [ANTHROPIC_API_KEY : BOOLEAN, OPENAI_API_KEY : BOOLEAN]
  /\ pc = [r \in Requests |-> "idle"]
  /\ body = [r \in Requests |-> Undefined]
  /\ workflow = [r \in Requests |-> Undefined]
  /\ response = [r \in Requests |-> NoResponse]
  /\ log = [r \in Requests |-> <<>>]
  /\ candidate = [r \in Requests |-> NoCandidate]
  /\ connection = [r \in Requests |-> "open"]

\* A request arrives with one of the given bodies.
ReceiveFrom(r, bodies) ==
  /\ pc[r] = "idle"
  /\ \E b \in bodies, now \in Times :
       /\ body' = [body EXCEPT ![r] = Obj(b)]
       /\ Become(r, ClaudeBlock(Started, b.workflowDescription, now))
  /\ UNCHANGED env

Receive(r) == ReceiveFrom(r, Bodies)

FetchSettles(r) ==
  /\ pc[r] = "awaitFetch"
  /\ \/ Become(r, AfterFetch(Current(r), "rejected", 0))
     \/ \E status \in Statuses : Become(r, AfterFetch(Current(r), "fulfilled", status))
  /\ UNCHANGED <<env, body>>

\* response.json() settles: it rejects, or gives one of the given bodies.
JsonSettlesFrom(r, bodies) ==
  /\ pc[r] = "awaitJson"
  /\ \E now \in Times :
       \/ Become(r, AfterJson(Current(r), "rejected", Undefined,
                              body[r].v.workflowDescription, now))
       \/ \E data \in bodies :
            Become(r, AfterJson(Current(r), "fulfilled", data,
                                body[r].v.workflowDescription, now))
  /\ UNCHANGED <<env, body>>

JsonSettles(r) == JsonSettlesFrom(r, ClaudeData)

\* The chat completion settles: it rejects, or gives one of the given
\* completions.
OpenAISettlesFrom(r, completions) ==
  /\ pc[r] = "awaitOpenAI"
  /\ \E now \in Times :
       \/ Become(r, AfterOpenAI(Current(r), "rejected", Undefined,
                                body[r].v.workflowDescription, now))
       \/ \E completion \in completions :
            Become(r, AfterOpenAI(Current(r), "fulfilled", completion,
                                  body[r].v.workflowDescription, now))
  /\ UNCHANGED <<env, body>>

OpenAISettles(r) == OpenAISettlesFrom(r, OpenAICompletions)

\* One request (request 1) served from arrival to response.
Next ==
  \/ Receive(1)
  \/ FetchSettles(1)
  \/ JsonSettles(1)
  \/ OpenAISettles(1)

Spec == Init /\ [][Next]_vars

(***************************************************************************)
(* Two requests in flight at once: each handler runs from one await to the *)
(* next, and the event loop interleaves the two at their awaits.           *)
(***************************************************************************)
MaxPairWords == 1

PairFragments ==
  { <<"E", "m", "a", "i", "l">>,
    <<"d", "a", "i", "l", "y">>,
    <<"s", "h", "e", "e", "t">> }

RECURSIVE PairPhrases(_)
PairPhrases(n) ==
  IF n = 0 THEN {<<>>}
  ELSE LET shorter == PairPhrases(n - 1)
       IN shorter \cup {p \o f : p \in shorter, f \in PairFragments}

PairBodies ==
  [businessContext : {EmptyObj},
   workflowDescription : {Undefined} \cup {Str(q) : q \in PairPhrases(MaxPairWords)}]

\* A reply without a document and a reply that is a document, per provider.
PairClaudeData ==
  {Obj([content |-> Arr(<<Obj([type |-> Lit("text"), text |-> Text(t)])>>)]) :
     t \in {<<Prose>>, Stringify(EmptyObj)}}

PairCompletions == {Completion(Null), Completion(Text(Stringify(EmptyObj)))}

ReceivePair(r) == ReceiveFrom(r, PairBodies)
JsonSettlesPair(r) == JsonSettlesFrom(r, PairClaudeData)
OpenAISettlesPair(r) == OpenAISettlesFrom(r, PairCompletions)

NextPair ==
  \E r \in Requests :
    \/ ReceivePair(r)
    \/ FetchSettles(r)
    \/ JsonSettlesPair(r)
    \/ OpenAISettlesPair(r)

SpecPair == Init /\ [][NextPair]_vars

(***************************************************************************)
(* The defaulting passes on their own: a candidate document is drawn and a *)
(* pass is applied to it, again and again, each time at some time.         *)
(***************************************************************************)
MaxNodes == 3
MaxPasses == 2

\* A node without a position, with one, with a null one; ids that repeat.
NodeShapes ==
  {Node("a"), NodeAt("a", 10, 20), Node("b"),
   SetProp(Node("b"), "position", Null)}

RECURSIVE NodeSeqs(_)
\* The node sequences of length at most n.
NodeSeqs(n) ==
  IF n = 0 THEN {<<>>}
  ELSE LET shorter == NodeSeqs(n - 1)
       IN shorter \cup {Append(q, x) : q \in shorter, x \in NodeShapes}

\* A property that is absent, or present with one of the values.
Optional(key, values) == {<<>>} \cup {key :> x : x \in values}

\* Candidate documents: every subset of name, nodes, connections and
\* settings present, nodes with and without a position, a dangling
\* connection target, duplicate ids.
CandidateDocs ==
  { Obj(n @@ ns @@ c @@ st) :
      n \in Optional("name", {Str(<<>>), Lit("Given name")}),
      ns \in Optional("nodes", {Arr(q) : q \in NodeSeqs(MaxNodes)}),
      c \in Optional("connections", {EmptyObj, Obj([a |-> MainTo("zz")])}),
      st \in Optional("settings", {Null, EmptyObj, Obj([executionOrder |-> Lit("v0")])}) }

InitNormalize ==
  /\ env = [ANTHROPIC_API_KEY |-> FALSE, OPENAI_API_KEY |-> FALSE]
  /\ pc = [r \in Requests |-> IF r = 1 THEN "candidate" ELSE "idle"]
  /\ body = [r \in Requests |-> Undefined]
  /\ \E d \in CandidateDocs :
       /\ workflow = [r \in Requests |-> IF r = 1 THEN d ELSE Undefined]
       /\ candidate = [r \in Requests |->
                        IF r = 1 THEN [by |-> "input", doc |-> d] ELSE NoCandidate]
  /\ response = [r \in Requests |-> NoResponse]
  /\ log = [r \in Requests |-> <<>>]
  /\ connection = [r \in Requests |-> "open"]

\* The pass of src/index.js applied to the document as it stands.
PassIndex(r) ==
  /\ pc[r] \in {"candidate", "index"}
  /\ Len(log[r]) < MaxPasses
  /\ \E now \in Times :
       workflow' = [workflow EXCEPT ![r] = EnsureValidStructure(@, now)]
  /\ pc' = [pc EXCEPT ![r] = "index"]
  /\ log' = [log EXCEPT ![r] = Append(@, "index.js pass")]
  /\ UNCHANGED <<env, body, response, candidate, connection>>

\* The pass of src/unnamed/part_000 applied to the document as it stands.
PassPart000(r) ==
  /\ pc[r] \in {"candidate", "part_000"}
  /\ Len(log[r]) < MaxPasses
  /\ \E now \in Times :
       LET res == EnsureRequiredFields(workflow[r], now)
       IN /\ workflow' = [workflow EXCEPT ![r] = res.workflow]
          /\ pc' = [pc EXCEPT ![r] = IF res.threw THEN "threw" ELSE "part_000"]
  /\ log' = [log EXCEPT ![r] = Append(@, "part_000 pass")]
  /\ UNCHANGED <<env, body, response, candidate, connection>>

NextNormalize == PassIndex(1) \/ PassPart000(1)

SpecNormalize == InitNormalize /\ [][NextNormalize]_vars

(***************************************************************************)
(* One request whose provider may never answer.  The awaited calls are     *)
(* issued without a timeout or an abort signal, so an awaited promise may  *)
(* stay pending for ever; the handler has no step of its own to take then. *)
(* The event loop resumes the handler whenever an awaited promise settles. *)
(***************************************************************************)
Awaits == {"awaitFetch", "awaitJson", "awaitOpenAI"}

\* The provider never answers the call the handler is suspended at.
Hangs(r) ==
  /\ pc[r] \in Awaits
  /\ pc' = [pc EXCEPT ![r] = "pending"]
  /\ UNCHANGED <<env, body, workflow, response, log, candidate, connection>>

NextLive ==
  \/ Next
  \/ Hangs(1)

SpecLive == Init /\ [][NextLive]_vars /\ WF_vars(NextLive)

(***************************************************************************)
(* One request whose client may disconnect while a provider call is in     *)
(* flight.  The handler registers no listener on req or res and hands no   *)
(* abort signal to its calls, so the disconnection changes nothing but the *)
(* connection itself.                                                      *)
(***************************************************************************)
Disconnects(r) ==
  /\ pc[r] \in Awaits
  /\ connection[r] = "open"
  /\ connection' = [connection EXCEPT ![r] = "closed"]
  /\ UNCHANGED <<env, pc, body, workflow, response, log, candidate>>

NextCancel ==
  \/ Next
  \/ Disconnects(1)

SpecCancel == Init /\ [][NextCancel]_vars

(***************************************************************************)
(* Vocabulary of the properties                                            *)
(***************************************************************************)
Wrote(r, line) == \E i \in 1..Len(log[r]) : log[r][i] = line

WroteBefore(r, first, second) ==
  \E i, j \in 1..Len(log[r]) : i < j /\ log[r][i] = first /\ log[r][j] = second

Done(r) == pc[r] = "done"

Description(r) == Get(body[r], "workflowDescription")

\* The request body carries a requirement string.
WellFormed(r) == Description(r).kind = "str"

ClaudeAttempted(r) == Wrote(r, "Using Claude...")
ClaudeSucceeded(r) == Wrote(r, "Claude generated workflow successfully")
\* The attempt on the primary provider is over and gave no workflow.
ClaudeFailed(r) ==
  ClaudeAttempted(r) /\ ~ClaudeSucceeded(r) /\ pc[r] \notin {"awaitFetch", "awaitJson"}

OpenAIAttempted(r) == Wrote(r, "Using OpenAI...")
OpenAISucceeded(r) == Wrote(r, "OpenAI generated workflow successfully")
OpenAIFailed(r) == OpenAIAttempted(r) /\ ~OpenAISucceeded(r) /\ pc[r] # "awaitOpenAI"

UsedFallback(r) == Wrote(r, "Using intelligent fallback...")

Sent(r) == response[r].status = 200
Document(r) == response[r].body

NodesOf(doc) == IF Get(doc, "nodes").kind = "arr" THEN Get(doc, "nodes").v ELSE <<>>

\* C1: for a well-formed request, a failed provider call (network error,
\* non-success status, unparsable text) never reaches the caller: the
\* response is 200 with a document, never a 5xx.
C1_ProviderFailureMasked ==
  \A r \in Requests :
    (Done(r) /\ WellFormed(r) /\ (ClaudeFailed(r) \/ OpenAIFailed(r)))
      => (Sent(r) /\ Document(r).kind = "obj")

\* C2: totality: for a non-empty requirement string, whatever the providers
\* return, the document sent after the defaulting pass has a non-empty name,
\* at least one node and settings holding executionOrder.
C2_Totality ==
  \A r \in Requests :
    (Sent(r) /\ WellFormed(r) /\ Description(r).v # <<>>
       /\ candidate[r].doc.kind = "obj")
      => /\ Truthy(Get(Document(r), "name"))
         /\ Get(Document(r), "nodes").kind = "arr"
         /\ Len(NodesOf(Document(r))) >= 1
         /\ HasKey(Get(Document(r), "settings"), "executionOrder")

\* C3: fallback ordering: with both providers configured, once the primary
\* has failed the secondary is attempted, after the primary, and when the
\* secondary succeeds the returned document is the secondary's.
C3_FallbackOrdering ==
  \A r \in Requests :
    (Done(r) /\ WellFormed(r) /\ env.ANTHROPIC_API_KEY /\ env.OPENAI_API_KEY
       /\ ClaudeFailed(r))
      => /\ WroteBefore(r, "Using Claude...", "Using OpenAI...")
         /\ OpenAISucceeded(r) /\ Truthy(candidate[r].doc)
              => (Sent(r) /\ candidate[r].by = "openai")

\* C4: heuristic last resort: when no credential is configured, or no
\* configured provider gave a workflow, the request with a requirement
\* string is answered 200 with the document of the keyword fallback.
C4_HeuristicLastResort ==
  \A r \in Requests :
    (Done(r) /\ WellFormed(r) /\ ~ClaudeSucceeded(r) /\ ~OpenAISucceeded(r))
      => (Sent(r) /\ UsedFallback(r) /\ candidate[r].by = "fallback")

\* C5: a request without workflowDescription is answered with a 5xx that
\* carries a diagnostic message, whatever the providers do, and only such
\* requests are answered with a 5xx.
C5_MalformedRequestOnly5xx ==
  \A r \in Requests :
    Done(r) =>
      /\ ~WellFormed(r) => (response[r].status >= 500
                             /\ HasKey(response[r].body, "details"))
      /\ response[r].status >= 500 => ~WellFormed(r)

TriggerTypes ==
  {Lit("n8n-nodes-base.emailReadImap"), Lit("n8n-nodes-base.scheduleTrigger"),
   Lit("n8n-nodes-base.webhook")}

Lower(r) == toLowerCase(Description(r).v)

Mentions(r, word) == includes(Lower(r), word)

WordEmail == <<"e", "m", "a", "i", "l">>
WordDaily == <<"d", "a", "i", "l", "y">>
WordSchedule == <<"s", "c", "h", "e", "d", "u", "l", "e">>
WordSheet == <<"s", "h", "e", "e", "t">>
WordSpreadsheet == <<"s", "p", "r", "e", "a", "d", "s", "h", "e", "e", "t">>

\* The response is the document of the keyword fallback.
Synthesized(r) == Sent(r) /\ UsedFallback(r)

\* C6: the synthesized document holds exactly one trigger node: the inbox
\* poll when the lower-cased text contains "email", else the schedule
\* trigger every 24 hours when it contains "daily" or "schedule", else the
\* webhook.
C6_TriggerSelection ==
  \A r \in Requests :
    Synthesized(r) =>
      LET nodes == NodesOf(Document(r))
          triggers == {i \in 1..Len(nodes) : Get(nodes[i], "type") \in TriggerTypes}
      IN /\ Cardinality(triggers) = 1
         /\ Cardinality({i \in 1..Len(nodes) : Get(nodes[i], "id") = Lit("trigger")}) = 1
         /\ \A i \in triggers :
              /\ Get(nodes[i], "id") = Lit("trigger")
              /\ Get(nodes[i], "type") =
                   (IF Mentions(r, WordEmail)
                      THEN Lit("n8n-nodes-base.emailReadImap")
                    ELSE IF Mentions(r, WordDaily) \/ Mentions(r, WordSchedule)
                      THEN Lit("n8n-nodes-base.scheduleTrigger")
                    ELSE Lit("n8n-nodes-base.webhook"))
              /\ Get(nodes[i], "type") = Lit("n8n-nodes-base.scheduleTrigger")
                   => Get(Index(Get(Get(Get(nodes[i], "parameters"), "rule"),
                                    "interval"), 0), "hoursInterval") = Num(24)

\* C6 happens: a synthesized document for a text that mentions both the
\* email keyword (in capitals) and a schedule keyword.
C6_Witness ==
  \E r \in Requests :
    /\ Synthesized(r)
    /\ Mentions(r, WordEmail) /\ Mentions(r, WordDaily)
    /\ ~includes(Description(r).v, WordEmail)

\* The ids the connection entry of a source names as targets.
TargetsOf(entry) ==
  LET outs == Get(entry, "main").v
  IN {Get(outs[i].v[j], "node") : i \in 1..Len(outs), j \in 1..1}

\* C7: the synthesized document has pairwise distinct node ids among
\* trigger, process and sheets; its connections are the chain
\* trigger -> process, extended by process -> sheets exactly when the text
\* contains "sheet" or "spreadsheet"; every id a connection uses is the id of
\* a node.
C7_GraphShape ==
  \A r \in Requests :
    Synthesized(r) =>
      LET nodes == NodesOf(Document(r))
          ids == {Get(nodes[i], "id") : i \in 1..Len(nodes)}
          conns == Get(Document(r), "connections").v
          sheet == Mentions(r, WordSheet) \/ Mentions(r, WordSpreadsheet)
      IN /\ Cardinality(ids) = Len(nodes)
         /\ ids \subseteq {Lit("trigger"), Lit("process"), Lit("sheets")}
         /\ DOMAIN conns = (IF sheet THEN {"trigger", "process"} ELSE {"trigger"})
         /\ TargetsOf(conns["trigger"]) = {Lit("process")}
         /\ sheet => TargetsOf(conns["process"]) = {Lit("sheets")}
         /\ \A k \in DOMAIN conns :
              /\ Lit(k) \in ids
              /\ Len(Get(conns[k], "main").v) = 1
              /\ Len(Get(conns[k], "main").v[1].v) = 1
              /\ TargetsOf(conns[k]) \subseteq ids

\* C7 happens: a synthesized document of three nodes, for a text that says
\* "sheet" without saying "spreadsheet".
C7_Witness ==
  \E r \in Requests :
    /\ Synthesized(r)
    /\ Mentions(r, WordSheet) /\ ~Mentions(r, WordSpreadsheet)
    /\ Len(NodesOf(Document(r))) = 3

\* C8: total-failure determinism: two requests with the same requirement
\* string that both end in the keyword fallback receive the same document,
\* whenever each was served and whatever was served meanwhile.
C8_FallbackDeterminism ==
  \A r1, r2 \in Requests :
    (Synthesized(r1) /\ Synthesized(r2) /\ Description(r1) = Description(r2))
      => Document(r1) = Document(r2)

\* C8 happens: two requests with the same non-empty text, both answered by
\* the keyword fallback, one of them after both providers gave no workflow.
C8_Witness ==
  \E r1, r2 \in Requests :
    /\ r1 # r2
    /\ Synthesized(r1) /\ Synthesized(r2)
    /\ Description(r1) = Description(r2)
    /\ Description(r1).v # <<>>
    /\ ClaudeFailed(r1) /\ OpenAIAttempted(r1)

\* C9: idempotence of the defaulting pass: once a pass (of src/index.js or
\* of src/unnamed/part_000) has been applied to a candidate document,
\* applying the same pass again, at any time, changes nothing.
C9_PassIdempotent ==
  [][\A r \in Requests : pc[r] \in {"index", "part_000"} => workflow'[r] = workflow[r]]_vars

\* C9 happens: a candidate without a name, with a node without a position,
\* has been through the same pass twice.
C9_Witness ==
  \E r \in Requests :
    /\ pc[r] \in {"index", "part_000"}
    /\ Len(log[r]) = 2
    /\ ~HasKey(candidate[r].doc, "name")
    /\ \E i \in 1..Len(NodesOf(candidate[r].doc)) :
         ~HasKey(NodesOf(candidate[r].doc)[i], "position")

\* The position [250 + 250*i, 300] of the node at index i (counted from 0).
ExpectedPosition(i) == Arr(<<Num(250 + 250 * i), Num(300)>>)

\* Every node of `before` without a position has its default in `after`.
PositionsDefaulted(before, after) ==
  /\ Len(NodesOf(after)) = Len(NodesOf(before))
  /\ \A i \in 1..Len(NodesOf(before)) :
       ~Truthy(Get(NodesOf(before)[i], "position"))
         => Get(NodesOf(after)[i], "position") = ExpectedPosition(i - 1)

\* C10: position defaulting: in the document returned to the caller, every
\* node that arrived without a position at index i has position
\* [250 + 250*i, 300].
C10_PositionDefaulting ==
  \A r \in Requests :
    (Sent(r) /\ WellFormed(r) /\ candidate[r].doc.kind = "obj")
      => PositionsDefaulted(candidate[r].doc, Document(r))

\* The pass of src/unnamed/part_000 does give the positions C10 speaks of
\* (checked under SpecNormalize).
Part000PositionDefaulting ==
  \A r \in Requests :
    pc[r] = "part_000" => PositionsDefaulted(candidate[r].doc, workflow[r])

\* name, settings, nodes and connections are all present in doc, the name
\* not empty.
HasRequiredFields(doc) ==
  /\ Truthy(Get(doc, "name"))
  /\ Truthy(Get(doc, "settings"))
  /\ HasKey(doc, "nodes")
  /\ HasKey(doc, "connections")

\* C11: required-field defaulting: every document sent with status 200 has
\* a non-empty name, settings, nodes and connections, whichever provider or
\* path produced the candidate.
C11_RequiredFields ==
  \A r \in Requests :
    (Sent(r) /\ WellFormed(r) /\ candidate[r].doc.kind = "obj")
      => HasRequiredFields(Document(r))

\* The pass of src/unnamed/part_000 does leave the four fields C11 speaks of
\* (checked under SpecNormalize).
Part000RequiredFields ==
  \A r \in Requests :
    pc[r] = "part_000"
      => /\ HasRequiredFields(workflow[r])
         /\ Get(workflow[r], "nodes").kind = "arr"

\* C12: every provider call is bounded by a timeout that advances the chain,
\* so every request that has arrived eventually receives a response, even if
\* a provider never answers.
C12_EventuallyAnswered ==
  \A r \in Requests : (pc[r] # "idle") ~> Done(r)

\* All that belongs to request r.
Own(r) ==
  <<body[r], pc[r], workflow[r], response[r], log[r], candidate[r], connection[r]>>

\* C13: request isolation: no step of the handler serving one request
\* changes anything that belongs to another request or the environment the
\* requests share, and a response once sent never changes, however the two
\* requests interleave at their awaits.
C13_RequestIsolation ==
  [][/\ env' = env
     /\ \A r1, r2 \in Requests :
          (r1 # r2 /\ Own(r1)' # Own(r1)) => Own(r2)' = Own(r2)
     /\ \A r \in Requests : Done(r) => Own(r)' = Own(r)]_vars

\* C13 happens: both requests are in flight at once, with different bodies,
\* one suspended at its second provider call while the other is suspended
\* at its first.
C13_Witness ==
  \E r1, r2 \in Requests :
    /\ r1 # r2
    /\ body[r1] # body[r2]
    /\ pc[r1] = "awaitOpenAI" /\ ClaudeAttempted(r1)
    /\ pc[r2] = "awaitJson"

\* Every field of `before` is in `after` with the same value, but for a name
\* or settings that the pass replaces because it is empty or null.
Kept(before, after) ==
  /\ after.kind = "obj"
  /\ \A k \in DOMAIN before.v :
       (k \in {"name", "settings"} /\ ~Truthy(before.v[k]))
         \/ (k \in DOMAIN after.v /\ after.v[k] = before.v[k])

\* The handler's state after the chat completion `completion` arrives for
\* request r, suspended at that call.
OnCompletion(r, completion, now) ==
  AfterOpenAI(Current(r), "fulfilled", completion, Description(r), now)

\* C14: short-circuit: once the primary's reply has been extracted, the
\* secondary is not called and the keyword fallback is not run, and the
\* document sent is the primary's; and a completion of the secondary whose
\* content parses to an object is sent as the document, without the keyword
\* fallback.
C14_ShortCircuit ==
  \A r \in Requests :
    /\ ClaudeSucceeded(r)
         => /\ ~OpenAIAttempted(r) /\ ~UsedFallback(r)
            /\ Sent(r) /\ candidate[r].by = "claude"
            /\ candidate[r].doc.kind = "obj"
            /\ Kept(candidate[r].doc, Document(r))
    /\ pc[r] = "awaitOpenAI"
         => \A d \in ProviderDocs, now \in Times :
              LET st == OnCompletion(r, Completion(Text(Stringify(d))), now)
              IN /\ st.pc = "done" /\ st.response.status = 200
                 /\ st.candidate = [by |-> "openai", doc |-> d]
                 /\ Kept(d, st.response.body)
                 /\ \A i \in 1..Len(st.log) : st.log[i] # "Using intelligent fallback..."

\* C14 happens: with both providers configured, the primary's reply was
\* extracted and the response is sent.
C14_Witness ==
  \E r \in Requests :
    /\ env.ANTHROPIC_API_KEY /\ env.OPENAI_API_KEY
    /\ ClaudeSucceeded(r) /\ Sent(r)
    /\ HasKey(Document(r), "nodes")

\* The providers whose call request r has issued and not yet seen settle.
InFlight(r) ==
  (IF ClaudeAttempted(r) /\ pc[r] \in {"awaitFetch", "awaitJson"} THEN {"claude"} ELSE {})
    \cup (IF OpenAIAttempted(r) /\ pc[r] = "awaitOpenAI" THEN {"openai"} ELSE {})

\* C15: strictly sequential attempts: a request has at most one provider
\* call in flight, and the secondary's call is issued only when the primary
\* is not configured or its attempt is over and gave no workflow.
C15_SequentialAttempts ==
  \A r \in Requests :
    /\ Cardinality(InFlight(r)) <= 1
    /\ OpenAIAttempted(r)
         => \/ ~env.ANTHROPIC_API_KEY /\ ~ClaudeAttempted(r)
            \/ /\ WroteBefore(r, "Using Claude...", "Using OpenAI...")
               /\ ClaudeFailed(r)

\* C15 happens: the secondary's call is in flight after the primary's reply
\* held no document.
C15_Witness ==
  \E r \in Requests :
    /\ ClaudeFailed(r)
    /\ InFlight(r) = {"openai"}

\* How many times request r wrote the line.
Count(r, line) == Cardinality({i \in 1..Len(log[r]) : log[r][i] = line})

\* C16: no retry: within one request each provider is called at most once,
\* whatever the outcome of its call or of the extraction of its reply.
C16_NoRetry ==
  \A r \in Requests :
    /\ Count(r, "Using Claude...") <= 1
    /\ Count(r, "Using OpenAI...") <= 1
    /\ Count(r, "Claude API error") <= 1

\* C16 happens: a request is over after a provider call that failed.
C16_Witness ==
  \E r \in Requests :
    /\ Done(r)
    /\ Count(r, "Using Claude...") = 1
    /\ Wrote(r, "Claude API error")

C18_ExtractionOutcome ==
  \A r \in Requests :
    (Sent(r) /\ WellFormed(r) /\ candidate[r].by \in {"claude", "openai"})
      => (candidate[r].doc.kind = "obj" /\ Document(r).kind = "obj")

\* The fields of a document that a pass may fill.
Fillable(by) ==
  IF by = "part_000" THEN {"name", "nodes", "connections", "settings"}
  ELSE {"name", "settings"}

\* Node `after` is node `before`, but for a position it had not (when
\* strict) or that was missing, null or otherwise falsy (when not strict).
SameNode(before, after, strict) ==
  /\ after.kind = "obj"
  /\ DOMAIN after.v \subseteq DOMAIN before.v \cup {"position"}
  /\ \A f \in DOMAIN before.v :
       \/ f \in DOMAIN after.v /\ after.v[f] = before.v[f]
       \/ ~strict /\ f = "position" /\ ~Truthy(before.v[f])

SameNodes(before, after, strict) ==
  /\ after.kind = "arr"
  /\ Len(after.v) = Len(before.v)
  /\ \A i \in 1..Len(before.v) : SameNode(before.v[i], after.v[i], strict)

\* Document `after` is document `before` with nothing changed but fields
\* the pass `by` fills: those that were absent (when strict), or absent, null
\* or otherwise falsy (when not strict).
Frame(by, before, after, strict) ==
  /\ after.kind = "obj"
  /\ DOMAIN after.v \subseteq DOMAIN before.v \cup Fillable(by)
  /\ \A k \in DOMAIN before.v :
       \/ k \in DOMAIN after.v /\ after.v[k] = before.v[k]
       \/ /\ k = "nodes" /\ by = "part_000" /\ before.v[k].kind = "arr"
          /\ k \in DOMAIN after.v /\ SameNodes(before.v[k], after.v[k], strict)
       \/ ~strict /\ k \in Fillable(by) /\ ~Truthy(before.v[k])

\* C19 as stated: the pass (of src/index.js or of src/unnamed/part_000)
\* changes only fields that are absent: every name, settings, nodes and
\* connections value that is present, every position a node has and every
\* other field of a node come back unchanged.
C19_OnlyAbsentFilled ==
  \A r \in Requests :
    pc[r] \in {"index", "part_000"}
      => Frame(pc[r], candidate[r].doc, workflow[r], TRUE)

\* C19 as amended: the pass changes only fields that are absent or hold a
\* falsy value (null, the empty string); every other name, settings, nodes
\* and connections value, every position a node has that is not null and
\* every other field of a node come back unchanged, dangling connection
\* targets and repeated node ids included.
C19_NormalizerFrame ==
  \A r \in Requests :
    pc[r] \in {"index", "part_000"}
      => Frame(pc[r], candidate[r].doc, workflow[r], FALSE)

\* C19 happens: the pass of src/unnamed/part_000 has run on a document with
\* a name, a dangling connection target, two nodes of the same id, one of
\* them with a position, and null settings.
C19_Witness ==
  \E r \in Requests :
    LET doc == candidate[r].doc
        nodes == NodesOf(doc)
    IN /\ pc[r] = "part_000"
       /\ Truthy(Get(doc, "name"))
       /\ Get(doc, "settings") = Null
       /\ Get(doc, "connections") = Obj([a |-> MainTo("zz")])
       /\ Len(nodes) = 2
       /\ Get(nodes[1], "id") = Get(nodes[2], "id")
       /\ HasKey(nodes[1], "position") /\ ~HasKey(nodes[2], "position")

\* C20: cancellation: once the client has disconnected during a provider
\* call, that call is aborted and no remaining step of the chain runs: the
\* handler issues no further call, takes no reply as a workflow and does not
\* run the keyword fallback.
C20_CancellationStops ==
  [][\A r \in Requests :
       (connection[r] = "closed" /\ WellFormed(r))
         => /\ pc'[r] \notin Awaits \ {pc[r]}
            /\ OpenAIAttempted(r)' => OpenAIAttempted(r)
            /\ ClaudeSucceeded(r)' => ClaudeSucceeded(r)
            /\ OpenAISucceeded(r)' => OpenAISucceeded(r)
            /\ UsedFallback(r)' => UsedFallback(r)]_vars

\* C21: single response: on every path of the handler a request that is
\* over has been sent exactly one response, a 200 with the workflow or a 500
\* with the error object; a request that is not over has been sent none and
\* is suspended at an awaited call.
C21_SingleResponse ==
  \A r \in Requests :
    /\ response[r].sends <= 1
    /\ Done(r) <=> response[r].sends = 1
    /\ Done(r)
         => \/ /\ response[r].status = 200
               /\ response[r].body = workflow[r]
               /\ ~Wrote(r, "Generation error")
            \/ /\ response[r].status = 500
               /\ Get(response[r].body, "error") = Lit("Generation failed")
               /\ HasKey(response[r].body, "details")
               /\ Count(r, "Generation error") = 1
    /\ ~Done(r) => (response[r] = NoResponse /\ pc[r] \in Awaits \cup {"idle"})

\* C21 happens: a request is over, answered exactly once with a 500, after a
\* provider call had been issued and thrown.
C21_Witness ==
  \E r \in Requests :
    /\ Done(r) /\ response[r].status = 500 /\ response[r].sends = 1
    /\ ClaudeAttempted(r)

====
